---- MODULE Spec2Model ----
(***************************************************************************)
(* The formatjson5 command line tool (src/src/main.rs): the command line   *)
(* is parsed into Opt, every input is read and parsed (parse_documents),   *)
(* the FormatOptions are built from Opt (main) and the parsed documents    *)
(* are rendered and either printed or written back (format_documents).     *)
(* The json5format library is outside this source file: its three entry    *)
(* points are modelled by their results (Ok or Err, and the bytes).        *)
(***************************************************************************)
EXTENDS Integers, Sequences, FiniteSets, TLC

\* ------------------------------------------------------------------ bounds

\* The longest list of [files]... on the command line.
MaxFiles == 2

\* ------------------------------------------------------------------ inputs

NoArg == "<none>"
NoFile == "<absent>"

\* Two files, and the name that stands for standard input.
FileNames == {"a", "bb", "-"}
StdinName == "-"
FlagNames == {"-r", "-n", "-o", "-s"}
IndentArgs == {NoArg, "2", "x"}

\* JSON5 texts the files hold: three valid ones and one with a missing value.
ValidTexts == {"[1]", "{b:2}", "[3]"}
InvalidText == "{a:}"
EmptyText == ""

\* What standard input holds when the command starts.
StdinText == "[3]"

FileLists == UNION {[1..n -> FileNames] : n \in 0..MaxFiles}

\* ----------------------------------------------------------- command line

\* #[structopt(short, long, default_value = "4")] indent: usize
DefaultIndent == "4"

\* usize::from_str on the text of --indent; -1 stands for the parse error.
ParseUsize(s) ==
  CASE s = "0" -> 0
    [] s = "2" -> 2
    [] s = "4" -> 4
    [] s = "8" -> 8
    [] OTHER -> -1

\* struct Opt, as structopt fills it from the command line.
OptOf(cl) ==
  [ files |-> cl.files,
    replace |-> "-r" \in cl.flags,
    no_trailing_commas |-> "-n" \in cl.flags,
    one_element_lines |-> "-o" \in cl.flags,
    sort_arrays |-> "-s" \in cl.flags,
    indent |-> ParseUsize(IF cl.indent = NoArg THEN DefaultIndent ELSE cl.indent) ]

NoOpt ==
  [ files |-> <<>>, replace |-> FALSE, no_trailing_commas |-> FALSE,
    one_element_lines |-> FALSE, sort_arrays |-> FALSE, indent |-> 0 ]

\* FormatOptionsOf with the negation of no_trailing_commas forgotten.
FormatOptionsOfPlain(a) ==
  [ indent_by |-> a.indent,
    trailing_commas |-> a.no_trailing_commas,
    collapse_containers_of_one |-> a.one_element_lines,
    sort_array_items |-> a.sort_arrays ]

\* let options = FormatOptions { ... } in main.
FormatOptionsOf(a) ==
  [ indent_by |-> a.indent,
    trailing_commas |-> ~a.no_trailing_commas,
    collapse_containers_of_one |-> a.one_element_lines,
    sort_array_items |-> a.sort_arrays ]

NoOptions ==
  [ indent_by |-> 0, trailing_commas |-> FALSE,
    collapse_containers_of_one |-> FALSE, sort_array_items |-> FALSE ]

\* ---------------------------------------------------------------- library

\* Json5Format: the options it was built with; NoFormat before it is built.
Json5Format(o) == [ built |-> TRUE, options |-> o ]

NoFormat == [ built |-> FALSE, options |-> NoOptions ]

Bool2Str(b) == IF b THEN "t" ELSE "f"

\* The options a Json5Format was built with, as they show in its output.
OptTag(o) ==
  ToString(o.indent_by) \o Bool2Str(o.trailing_commas)
    \o Bool2Str(o.collapse_containers_of_one) \o Bool2Str(o.sort_array_items)

\* format.to_utf8(&parsed_document): the bytes of a document under a format.
ToUtf8(doc, fmt) == "<" \o OptTag(fmt.options) \o "|" \o doc.text \o ">"

\* ParsedDocument::from_string(buffer, Some(filename)): the possible results.
ParseResults(text, emptyParses) ==
  IF text = InvalidText THEN {FALSE}
  ELSE IF text = EmptyText THEN {emptyParses}
  ELSE {TRUE}

\* ------------------------------------------------------------------ output

RECURSIVE Repeat(_, _)
\* "=".repeat(n)
Repeat(s, n) == IF n = 0 THEN "" ELSE s \o Repeat(s, n - 1)

\* if index > 0 { println!(); }
BlankLine(index) == IF index > 0 THEN "\n" ELSE ""

\* Header with the test on the count off by one: a lone document gets a header.
HeaderAlways(count, filename) ==
  IF count > 0
    THEN filename \o ":\n" \o Repeat("=", Len(filename)) \o "\n"
    ELSE ""

\* if parsed_documents.len() > 1 { println!("{}:", filename); println!("{}", "=".repeat(filename.len())); }
Header(count, filename) ==
  IF count > 1
    THEN filename \o ":\n" \o Repeat("=", Len(filename)) \o "\n"
    ELSE ""

\* ------------------------------------------------------------------- state

VARIABLES
  cmdline,            \* the command line: flags, the --indent text, the files
  lib,                \* what the library does with the texts it is not known for
  pc,                 \* where main is
  args,               \* Opt
  fs,                 \* the file system: file name -> text, or NoFile
  orig,               \* the file system as the command found it
  stdin,              \* what is left to read on standard input
  stdout,             \* what has been printed
  next_file,          \* how many of args.files the loop of parse_documents has taken
  parsed_documents,   \* Vec<ParsedDocument>
  options,            \* FormatOptions built by main
  format,             \* the Json5Format of format_documents, or NoFormat
  index,              \* the loop index of format_documents
  err                 \* the error main returned, or "none"

vars == << cmdline, lib, pc, args, fs, orig, stdin, stdout, next_file,
           parsed_documents, options, format, index, err >>

Init ==
  /\ cmdline \in [ flags : SUBSET FlagNames, indent : IndentArgs, files : FileLists ]
  /\ lib \in [ emptyParses : BOOLEAN, unrenderable : {{}} \cup {{t} : t \in ValidTexts} ]
  /\ pc = "start"
  /\ args = NoOpt
  /\ fs \in { f \in [FileNames -> ValidTexts \cup {InvalidText, NoFile}] :
                /\ f["a"] \in {"[1]", InvalidText}
                /\ f["bb"] \in {"{b:2}", NoFile}
                /\ f[StdinName] = NoFile }
  /\ orig = fs
  /\ stdin = StdinText
  /\ stdout = ""
  /\ next_file = 0
  /\ parsed_documents = <<>>
  /\ options = NoOptions
  /\ format = NoFormat
  /\ index = 0
  /\ err = "none"

\* ----------------------------------------------------------------- actions

\* Opt::args(): structopt parses the command line, or ends the command.
Args ==
  /\ pc = "start"
  /\ IF OptOf(cmdline).indent < 0
       THEN /\ err' = "Usage"
            /\ pc' = "done"
            /\ args' = args
       ELSE /\ args' = OptOf(cmdline)
            /\ pc' = "main"
            /\ err' = err
  /\ UNCHANGED << cmdline, lib, fs, orig, stdin, stdout, next_file, parsed_documents,
                  options, format, index >>

\* main: if args.files.len() == 0 { return Err(...) }
CheckFiles ==
  /\ pc = "main"
  /\ IF Len(args.files) = 0
       THEN /\ err' = "NoFiles"
            /\ pc' = "done"
       ELSE /\ pc' = "parse"
            /\ err' = err
  /\ UNCHANGED << cmdline, lib, args, fs, orig, stdin, stdout, next_file, parsed_documents,
                  options, format, index >>

\* ParseFailed that notes the error and goes on to the next file.
ParseFailedSkip(kind) ==
  /\ err' = kind
  /\ next_file' = next_file + 1
  /\ UNCHANGED << pc, parsed_documents >>

\* What a failed read or parse does to main: the ? returns the error.
ParseFailed(kind) ==
  /\ err' = kind
  /\ pc' = "done"
  /\ UNCHANGED << next_file, parsed_documents >>

\* What a parsed input does: parsed_documents.push(...), and on to the next file.
ParsedOk(filename, text) ==
  /\ parsed_documents' = Append(parsed_documents, [filename |-> filename, text |-> text])
  /\ next_file' = next_file + 1
  /\ UNCHANGED << pc, err >>

\* One turn of the loop of parse_documents.
ParseOne ==
  /\ pc = "parse"
  /\ next_file < Len(args.files)
  /\ LET filename == args.files[next_file + 1] IN
       IF filename = StdinName
         THEN \* Opt::from_stdin reads standard input to its end
              /\ stdin' = EmptyText
              /\ \E ok \in ParseResults(stdin, lib.emptyParses) :
                   IF ok
                     THEN ParsedOk(filename, stdin)
                     ELSE ParseFailed("Parse")
         ELSE /\ stdin' = stdin
              /\ IF fs[filename] = NoFile
                   THEN ParseFailed("Read")
                   ELSE \E ok \in ParseResults(fs[filename], lib.emptyParses) :
                          IF ok
                            THEN ParsedOk(filename, fs[filename])
                            ELSE ParseFailed("Parse")
  /\ UNCHANGED << cmdline, lib, args, fs, orig, stdout, options, format, index >>

\* parse_documents returns Ok(parsed_documents); main builds the FormatOptions.
MkOptions ==
  /\ pc = "parse"
  /\ next_file = Len(args.files)
  /\ options' = FormatOptionsOf(args)
  /\ pc' = "with_options"
  /\ UNCHANGED << cmdline, lib, args, fs, orig, stdin, stdout, next_file, parsed_documents,
                  format, index, err >>

\* OptionsRejected that notes the error and formats all the same.
OptionsRejectedLate ==
  /\ err' = "InvalidOptions"
  /\ pc' = "format"
  /\ format' = Json5Format(options)

\* What a rejected FormatOptions does to format_documents: the ? returns.
OptionsRejected ==
  /\ err' = "InvalidOptions"
  /\ pc' = "done"
  /\ format' = format

\* let format = Json5Format::with_options(options)?;
WithOptions ==
  /\ pc = "with_options"
  /\ \E valid \in BOOLEAN :
       IF valid
         THEN /\ format' = Json5Format(options)
              /\ pc' = "format"
              /\ err' = err
         ELSE OptionsRejected
  /\ index' = 0
  /\ UNCHANGED << cmdline, lib, args, fs, orig, stdin, stdout, next_file, parsed_documents,
                  options >>

\* The results of Opt::write_to_file: written, the open failed, or the file
\* was opened (and so truncated) and write_all failed.
WriteResults == {"ok", "open_err", "write_err"}

\* WriteToFile that opens the file to append instead of truncating it.
WriteToFileAppend(filename, bytes, result) ==
  CASE result = "ok" ->
         [fs EXCEPT ![filename] = IF @ = NoFile THEN bytes ELSE @ \o bytes]
    [] result = "write_err" -> [fs EXCEPT ![filename] = EmptyText]
    [] OTHER -> fs

\* Opt::write_to_file(filename, &bytes)
WriteToFile(filename, bytes, result) ==
  CASE result = "ok" -> [fs EXCEPT ![filename] = bytes]
    [] result = "write_err" -> [fs EXCEPT ![filename] = EmptyText]
    [] OTHER -> fs

\* What the loop of format_documents does after a document is done.
NextDocument ==
  /\ index' = index + 1
  /\ UNCHANGED << pc, err >>

\* FormatFailed that notes the error and goes on to the next document.
FormatFailedContinue(kind) ==
  /\ err' = kind
  /\ index' = index + 1
  /\ pc' = pc

\* What a failed to_utf8 or write_to_file does: the ? returns the error.
FormatFailed(kind) ==
  /\ err' = kind
  /\ pc' = "done"
  /\ index' = index

\* What the non-replace branch prints for one document. The bytes of to_utf8
\* are UTF-8, so std::str::from_utf8(&bytes)? does not return an error.
Printed(i, count, filename, bytes) ==
  BlankLine(i) \o Header(count, filename) \o bytes

\* Whether the replace branch is taken.
Replacing(replace) == replace

\* One turn of the loop of format_documents.
FormatOne ==
  /\ pc = "format"
  /\ index < Len(parsed_documents)
  /\ LET parsed_document == parsed_documents[index + 1]
         filename == parsed_document.filename
         bytes == ToUtf8(parsed_document, format)
     IN
       IF parsed_document.text \in lib.unrenderable
         THEN /\ FormatFailed("Render")
              /\ UNCHANGED << fs, stdout >>
         ELSE IF Replacing(args.replace)
           THEN \E result \in WriteResults :
                  /\ fs' = WriteToFile(filename, bytes, result)
                  /\ stdout' = stdout
                  /\ IF result = "ok" THEN NextDocument ELSE FormatFailed("Write")
           ELSE /\ stdout' = stdout \o Printed(index, Len(parsed_documents), filename, bytes)
                /\ fs' = fs
                /\ NextDocument
  /\ UNCHANGED << cmdline, lib, args, orig, stdin, next_file, parsed_documents,
                  options, format >>

\* format_documents returns Ok(()) and so does main.
Finish ==
  /\ pc = "format"
  /\ index = Len(parsed_documents)
  /\ pc' = "done"
  /\ UNCHANGED << cmdline, lib, args, fs, orig, stdin, stdout, next_file, parsed_documents,
                  options, format, index, err >>

Next ==
  \/ Args
  \/ CheckFiles
  \/ ParseOne
  \/ MkOptions
  \/ WithOptions
  \/ FormatOne
  \/ Finish

Spec == Init /\ [][Next]_vars

\* The command with a library that keeps to the JSON5 grammar, in which an
\* empty text is no document: a second read of standard input never parses.
InitGrammar == Init /\ ~lib.emptyParses

SpecGrammar == InitGrammar /\ [][Next]_vars

\* ------------------------------------------------------------------ claims

\* The bytes of the i-th parsed document under the format of format_documents.
Bytes(i) == ToUtf8(parsed_documents[i], format)

\* The name of the i-th parsed document.
NameOf(i) == parsed_documents[i].filename

\* The line of '=' under the name of a file: as many as the name is long.
RuleOf(name) == IF name = "bb" THEN "==" ELSE "="

\* The text the command read for the i-th file of the command line: the file's,
\* or standard input's, which is empty once it has been read to its end.
InputText(i) ==
  LET f == cmdline.files[i] IN
    IF f # StdinName THEN orig[f]
    ELSE IF \E j \in 1..(i - 1) : cmdline.files[j] = StdinName THEN EmptyText
    ELSE StdinText

\* The parsed documents are the first n inputs of the command line, in order.
DocumentsAreInputs(n) ==
  /\ Len(parsed_documents) = n
  /\ \A i \in 1..n :
       parsed_documents[i] = [filename |-> cmdline.files[i], text |-> InputText(i)]

\* The command ended without an error.
Succeeded == pc = "done" /\ err = "none"

\* C1: when reading or parsing any input fails the command ends with that
\* error and nothing is formatted: standard output is empty and every file is
\* as the command found it, the inputs parsed before the failing one included.
C1_ParseFailureFormatsNothing ==
  err \in {"Read", "Parse"} =>
    /\ pc = "done"
    /\ stdout = ""
    /\ fs = orig

C1_Witness ==
  /\ err \in {"Read", "Parse"}
  /\ pc = "done"
  /\ Len(parsed_documents) >= 1

C7_OptionsFromFlags ==
  format.built =>
    /\ format.options = options
    /\ options.indent_by = (IF cmdline.indent = NoArg THEN 4
                            ELSE IF cmdline.indent = "2" THEN 2 ELSE -1)
    /\ options.trailing_commas = ("-n" \notin cmdline.flags)
    /\ options.collapse_containers_of_one = ("-o" \in cmdline.flags)
    /\ options.sort_array_items = ("-s" \in cmdline.flags)
    /\ (cmdline.flags \subseteq {"-r"} /\ cmdline.indent = NoArg) =>
         options = [ indent_by |-> 4, trailing_commas |-> TRUE,
                     collapse_containers_of_one |-> FALSE,
                     sort_array_items |-> FALSE ]

C7_Witness ==
  /\ format.built
  /\ cmdline.flags = {}
  /\ cmdline.indent = NoArg
  /\ options.trailing_commas

\* C8: when the FormatOptions are rejected the command ends with that error
\* before any document is rendered: standard output is empty and every file is
\* as the command found it, however many documents were parsed.
C8_InvalidOptionsFormatsNothing ==
  err = "InvalidOptions" =>
    /\ pc = "done"
    /\ stdout = ""
    /\ fs = orig

C8_Witness ==
  /\ err = "InvalidOptions"
  /\ pc = "done"
  /\ Len(parsed_documents) = 2

RECURSIVE Listing(_)
\* What is printed for the first k of two or more documents: before each its
\* name and a colon, a line of '=' as long as the name, and, but for the first,
\* an empty line.
Listing(k) ==
  IF k = 0 THEN ""
  ELSE Listing(k - 1) \o (IF k = 1 THEN "" ELSE "\n")
         \o NameOf(k) \o ":\n" \o RuleOf(NameOf(k)) \o "\n" \o Bytes(k)

\* C9: without replace the documents are printed in command-line order, each
\* once: a lone document as its bytes alone, two or more each under its header.
C9_PrintedInOrder ==
  (Succeeded /\ ~args.replace) =>
    /\ DocumentsAreInputs(Len(cmdline.files))
    /\ IF Len(parsed_documents) = 1
         THEN stdout = Bytes(1)
         ELSE stdout = Listing(Len(parsed_documents))

C9_Witness ==
  /\ Succeeded
  /\ ~args.replace
  /\ Len(parsed_documents) = 2
  /\ NameOf(1) = "bb"
  /\ NameOf(2) = "a"

\* The last of the first k documents that names the file f, or 0.
LastNaming(f, k) ==
  LET named == {i \in 1..k : NameOf(i) = f} IN
    IF named = {} THEN 0 ELSE CHOOSE i \in named : \A j \in named : j <= i

\* C10 as stated: when rendering or writing the document after the first
\* `index` ones fails in replace mode, the command stops, the files of the
\* documents before it hold their formatted versions, the files of the later
\* documents are unchanged, and its own file is unchanged if rendering failed.
C10_AsStated ==
  (args.replace /\ err \in {"Render", "Write"}) =>
    /\ pc = "done"
    /\ \A i \in 1..index : fs[NameOf(i)] = Bytes(i)
    /\ \A i \in (index + 2)..Len(parsed_documents) : fs[NameOf(i)] = orig[NameOf(i)]
    /\ err = "Render" => fs[NameOf(index + 1)] = orig[NameOf(index + 1)]

\* C10 amended: when rendering or writing the document after the first `index`
\* ones fails in replace mode, the command stops; every file holds the
\* formatted version of the last document before the failing one that names
\* it, or, when none of them names it, what it held when the command started;
\* the one exception is the failing document's own file when the write failed.
C10_StopsAtFailure ==
  (args.replace /\ err \in {"Render", "Write"}) =>
    /\ pc = "done"
    /\ index < Len(parsed_documents)
    /\ \A f \in FileNames :
         \/ err = "Write" /\ f = NameOf(index + 1)
         \/ fs[f] = (IF LastNaming(f, index) = 0 THEN orig[f]
                     ELSE Bytes(LastNaming(f, index)))

C10_Witness ==
  /\ args.replace
  /\ err \in {"Render", "Write"}
  /\ pc = "done"
  /\ index = 1
  /\ Len(parsed_documents) = 2
  /\ NameOf(1) # NameOf(2)
  /\ fs[NameOf(1)] = Bytes(1)
  /\ fs[NameOf(1)] # orig[NameOf(1)]

====
